---------------------------- MODULE Spec2Model ----------------------------
(***************************************************************************)
(* Model of package logger (src/logde.go): a LogOptions configuration is   *)
(* built (New, NewFromToml, NewFromYaml, NewFromJson, the setters),        *)
(* InitLogger assembles writer-sets, level filters and cores from it, and  *)
(* the returned Log writes entries through those cores.                    *)
(*                                                                         *)
(* zap, lumberjack, rotatelogs and sentry-go are libraries (go.mod); what  *)
(* the model takes from them is named at each definition.  The fields      *)
(* TimeUnit and Stacktrace only name the rotated file or decorate entries  *)
(* and are left out of the configuration record.                           *)
(***************************************************************************)
EXTENDS Integers, Sequences, FiniteSets

VARIABLES
    pc,       \* "start" | "config" | "ready" | "panicked" | "exited"
    c,        \* the *LogOptions the caller holds: NilOptions or a record
    loadErr,  \* the loader that printed an error and went on: "none" | "yaml" | "json"
    cause,    \* what the process panicked on, "" while it runs
    printed,  \* whether InitLogger printed a sentry client error (line 269)
    log,      \* the *Log InitLogger returned: NoLog or its cores
    last      \* what the last logging call wrote: NoEntry or a record

vars == <<pc, c, loadErr, cause, printed, log, last>>

---------------------------------------------------------------------------
(* Constants of the source and of zapcore.                                 *)

TimeDivision == "time"
SizeDivision == "size"
_defaultEncoding == "console"
_defaultDivision == "size"

DebugLevel == -1
InfoLevel == 0
WarnLevel == 1
ErrorLevel == 2
FatalLevel == 5

\* The largest value a size-rotation parameter takes in the model.
MaxInt == 1
\* How far below DebugLevel and above FatalLevel a configured Level may lie.
LevelSlack == 1

---------------------------------------------------------------------------
(* Input domains.                                                          *)

\* "xml" stands for any name missing from _encoderNameToConstructor.
Encodings == {"", "console", "json", "xml"}
\* "" is the zero value; it is neither "time" nor "size".
Divisions == {"", TimeDivision, SizeDivision}
\* "bad%" stands for a name whose strftime pattern rotatelogs.New rejects.
Paths == {"", "app.log", "bad%"}
\* "bad" stands for a DSN sentry.NewClient rejects.
DSNs == {"", "http://key@host/2", "bad"}
\* Severities the configuration may name as minimum (Level is an int8).
Levels == (DebugLevel - LevelSlack) .. (FatalLevel + LevelSlack)
Ints == 0 .. MaxInt

NilOptions == [nil |-> TRUE]
NoLog == [nil |-> TRUE]
NoEntry == [nil |-> TRUE]

\* The LogOptions values a decoder can fill in, with the size-rotation
\* parameters drawn from ints and compress; caller and skip are unexported
\* and keep their zero values.
Options(ints, compress) ==
    [Encoding : Encodings, InfoFilename : Paths, ErrorFilename : Paths,
     MaxSize : ints, MaxBackups : ints, MaxAge : ints, Compress : compress,
     Division : Divisions, LevelSeparate : BOOLEAN, Level : Levels,
     CloseDisplay : {0, 1}, DSN : DSNs, caller : {FALSE}, skip : {0}]

\* What a decoder produces from a configuration file.  The size-rotation
\* parameters only pass into the lumberjack writer; Spec leaves them at their
\* zero values and SizeSpec varies them.
FileOptions == Options({0}, {FALSE})

\* New() followed by assignments to the exported fields that reach the
\* rotating writers.
SizeOptions ==
    [Encoding : {_defaultEncoding}, InfoFilename : Paths, ErrorFilename : Paths,
     MaxSize : Ints, MaxBackups : Ints, MaxAge : Ints, Compress : BOOLEAN,
     Division : Divisions, LevelSeparate : BOOLEAN, Level : {InfoLevel},
     CloseDisplay : {0}, DSN : {""}, caller : {FALSE}, skip : {0}]

---------------------------------------------------------------------------
(* Level filters.                                                          *)

\* infoLevel without its upper bound.
infoLevelUnbounded(level, lvl) == lvl >= level

infoLevel(level, lvl) == lvl >= level /\ lvl < WarnLevel

warnLevel(lvl) == lvl >= WarnLevel

logLevel(level, lvl) == lvl >= level

\* The sentry core's LevelEnabler is cfg.Level: zapcore.Level.Enabled.
SentryCoreEnabled(level, lvl) == lvl >= level

\* A core's LevelEnabler applied to an entry's level.
Enabled(core, lvl) ==
    CASE core.enab = "info" -> infoLevel(core.level, lvl)
      [] core.enab = "warn" -> warnLevel(lvl)
      [] core.enab = "log" -> logLevel(core.level, lvl)
      [] core.enab = "sentry" -> SentryCoreEnabled(core.level, lvl)

---------------------------------------------------------------------------
(* Writers.                                                                *)

Stdout == [kind |-> "stdout"]
\* The zero value of an io.Writer variable (infoHook, warnHook never assigned).
NilWriter == [kind |-> "nil"]
\* What timeDivisionWriter yields when it panics instead of returning.
Panics == [kind |-> "panic"]

sizeDivisionWriter(opts, filename) ==
    [kind |-> "lumberjack", Filename |-> filename, MaxSize |-> opts.MaxSize,
     MaxBackups |-> opts.MaxBackups, MaxAge |-> opts.MaxSize,
     Compress |-> opts.Compress]

\* rotatelogs.New fails on a pattern strftime rejects, and on nothing else.
RotatelogsNewFails(filename) == filename = "bad%"

\* timeDivisionWriter with the error of rotatelogs.New dropped.
timeDivisionWriterIgnoringErr(opts, filename) ==
    IF RotatelogsNewFails(filename)
    THEN NilWriter
    ELSE [kind |-> "rotatelogs", Filename |-> filename, MaxAge |-> opts.MaxAge]

timeDivisionWriter(opts, filename) ==
    IF RotatelogsNewFails(filename)
    THEN Panics
    ELSE [kind |-> "rotatelogs", Filename |-> filename, MaxAge |-> opts.MaxAge]

isOutput(opts) == opts.InfoFilename # ""

---------------------------------------------------------------------------
(* InitLogger, by parts.                                                   *)

\* encoder := _encoderNameToConstructor[c.Encoding], after the default is set:
\* a missing key yields a nil func, and calling it panics.
EncoderIsNil(opts) == opts.Encoding \notin {"", "console", "json"}

\* The console appended whatever CloseDisplay says.
ConsoleWritersAlways(opts) == <<Stdout>>

\* if c.CloseDisplay == 0: stdout goes into both writer-sets.
ConsoleWriters(opts) == IF opts.CloseDisplay = 0 THEN <<Stdout>> ELSE <<>>

\* The switch on c.Division for one file: no case matches any other string.
DivisionWriter(opts, filename) ==
    CASE opts.Division = TimeDivision -> timeDivisionWriter(opts, filename)
      [] opts.Division = SizeDivision -> sizeDivisionWriter(opts, filename)
      [] OTHER -> NilWriter

\* infoHook as it stands at line 219 (read only when isOutput holds).
infoHook(opts) == DivisionWriter(opts, opts.InfoFilename)

\* warnHook as it stands at line 223: assigned only inside if c.isOutput().
warnHook(opts) ==
    IF isOutput(opts) /\ opts.LevelSeparate
    THEN DivisionWriter(opts, opts.ErrorFilename)
    ELSE NilWriter

\* A writer constructor panicked between lines 206 and 220.
WriterPanics(opts) ==
    /\ isOutput(opts)
    /\ \/ infoHook(opts) = Panics
       \/ warnHook(opts) = Panics

wsInfo(opts) ==
    ConsoleWriters(opts) \o (IF isOutput(opts) THEN <<infoHook(opts)>> ELSE <<>>)

wsWarn(opts) ==
    ConsoleWriters(opts) \o (IF opts.ErrorFilename # "" THEN <<warnHook(opts)>> ELSE <<>>)

\* cos: one core per writer-set and filter.
LocalCores(opts) ==
    IF opts.LevelSeparate
    THEN << [ws |-> wsInfo(opts), enab |-> "info", level |-> opts.Level],
            [ws |-> wsWarn(opts), enab |-> "warn", level |-> WarnLevel] >>
    ELSE << [ws |-> wsInfo(opts), enab |-> "log", level |-> opts.Level] >>

SentryNewClientFails(dsn) == dsn = "bad"

\* sentryClient after sentry.NewClient: nil when it returned an error.
SentryClient(opts) == IF SentryNewClientFails(opts.DSN) THEN "nil" ELSE "client"

\* NewSentryCore(cfg, sentryClient) with cfg.Level = zap.ErrorLevel.
NewSentryCore(level, client) ==
    [ws |-> <<[kind |-> "sentry", client |-> client]>>, enab |-> "sentry", level |-> level]

\* The cores of the returned logger, in the order zap writes to them:
\* NewTee(NewTee(cos...), sCore) when a DSN is set, NewTee(cos...) otherwise.
AllCores(opts) ==
    LocalCores(opts) \o
        (IF opts.DSN # "" THEN <<NewSentryCore(ErrorLevel, SentryClient(opts))>> ELSE <<>>)
---------------------------------------------------------------------------
(* What one logging call does (zap's Logger.check and CheckedEntry.Write): *)
(* every core whose filter admits the level is written to, in order; a     *)
(* core writes to each writer of its writer-set, in order; writing to a    *)
(* nil io.Writer wrapped by zapcore.AddSync panics.                        *)

HasNil(ws) == \E i \in 1 .. Len(ws) : ws[i] = NilWriter

\* The writers of ws that are written before the first nil writer panics.
BeforeNil(ws) ==
    LET nils == {i \in 1 .. Len(ws) : ws[i] = NilWriter}
    IN  IF nils = {} THEN ws
        ELSE SubSeq(ws, 1, (CHOOSE i \in nils : \A j \in nils : i <= j) - 1)

\* The cores whose write panics for an entry of level lvl.
PanickingCores(cores, lvl) ==
    {i \in 1 .. Len(cores) : Enabled(cores[i], lvl) /\ HasNil(cores[i].ws)}

\* The first of them, 0 when none does.
FirstPanic(cores, lvl) ==
    LET ps == PanickingCores(cores, lvl)
    IN  IF ps = {} THEN 0 ELSE CHOOSE i \in ps : \A j \in ps : i <= j

\* What each core wrote, by core.
Writes(cores, lvl) ==
    LET fp == FirstPanic(cores, lvl)
    IN  [i \in 1 .. Len(cores) |->
            IF ~Enabled(cores[i], lvl) THEN <<>>
            ELSE IF fp = 0 \/ i < fp THEN cores[i].ws
            ELSE IF i = fp THEN BeforeNil(cores[i].ws)
            ELSE <<>>]

---------------------------------------------------------------------------
(* Actions.                                                                *)

Init ==
    /\ pc = "start"
    /\ c = NilOptions
    /\ loadErr = "none"
    /\ cause = ""
    /\ printed = FALSE
    /\ log = NoLog
    /\ last = NoEntry

New ==
    /\ pc = "start"
    /\ pc' = "config"
    /\ c' = [Encoding |-> _defaultEncoding, InfoFilename |-> "", ErrorFilename |-> "",
             MaxSize |-> 0, MaxBackups |-> 0, MaxAge |-> 0, Compress |-> FALSE,
             Division |-> _defaultDivision, LevelSeparate |-> FALSE, Level |-> 0,
             CloseDisplay |-> 0, DSN |-> "", caller |-> FALSE, skip |-> 0]
    /\ UNCHANGED <<loadErr, cause, printed, log, last>>

\* The file decodes, or toml.DecodeFile returns an error and the loader panics.
NewFromToml ==
    /\ pc = "start"
    /\ \/ /\ \E opts \in FileOptions : c' = opts
          /\ pc' = "config"
          /\ UNCHANGED cause
       \/ /\ pc' = "panicked"
          /\ cause' = "toml"
          /\ UNCHANGED c
    /\ UNCHANGED <<loadErr, printed, log, last>>

\* What NewFromYaml and NewFromJson share: var c *LogOptions stays nil when the
\* file cannot be read or does not parse; a value of the wrong type leaves a
\* partly decoded LogOptions behind.  The error is printed and c is returned.
Load(name) ==
    /\ pc = "start"
    /\ pc' = "config"
    /\ \/ /\ \E opts \in FileOptions : c' = opts
          /\ UNCHANGED loadErr
       \/ /\ \E failure \in {"read", "syntax", "type"} :
                IF failure = "type"
                THEN \E opts \in FileOptions : c' = opts
                ELSE c' = NilOptions
          /\ loadErr' = name
    /\ UNCHANGED <<cause, printed, log, last>>

NewFromYaml == Load("yaml")

NewFromJson == Load("json")

\* A method with a pointer receiver that stores into fields: a nil receiver
\* panics on the store.
Assign(opts) ==
    /\ pc = "config"
    /\ IF c = NilOptions
       THEN /\ pc' = "panicked"
            /\ cause' = "nil options"
            /\ UNCHANGED c
       ELSE /\ c' = opts
            /\ UNCHANGED <<pc, cause>>
    /\ UNCHANGED <<loadErr, printed, log, last>>

SetDivision == \E division \in Divisions : Assign([c EXCEPT !.Division = division])

CloseConsoleDisplay == Assign([c EXCEPT !.CloseDisplay = 1])

SetCaller ==
    \E enable \in BOOLEAN, skip \in {0, 2} :
        Assign([c EXCEPT !.caller = enable, !.skip = skip])

SetErrorFile ==
    \E path \in Paths : Assign([c EXCEPT !.LevelSeparate = TRUE, !.ErrorFilename = path])

SetInfoFile == \E path \in Paths : Assign([c EXCEPT !.InfoFilename = path])

SetEncoding == \E encoding \in Encodings : Assign([c EXCEPT !.Encoding = encoding])

\* c.Encoding after lines 171-173.
WithDefaultEncoding(opts) ==
    IF opts.Encoding = "" THEN [opts EXCEPT !.Encoding = _defaultEncoding] ELSE opts

\* Why InitLogger panics on opts, "" when it returns.
InitPanic(opts) ==
    IF opts = NilOptions THEN "nil options"
    ELSE IF WriterPanics(opts) THEN "rotatelogs"
    ELSE IF EncoderIsNil(opts) THEN "nil encoder"
    ELSE ""

InitLogger ==
    /\ pc = "config"
    /\ IF InitPanic(c) # ""
       THEN /\ pc' = "panicked"
            /\ cause' = InitPanic(c)
            /\ c' = IF c = NilOptions THEN c ELSE WithDefaultEncoding(c)
            /\ UNCHANGED <<printed, log>>
       ELSE /\ pc' = "ready"
            /\ c' = WithDefaultEncoding(c)
            /\ printed' = (c.DSN # "" /\ SentryNewClientFails(c.DSN))
            /\ log' = [cores |-> AllCores(c), caller |-> c.caller, skip |-> c.skip]
            /\ UNCHANGED cause
    /\ UNCHANGED <<loadErr, last>>

\* log.L.<Level>(msg): the entry is written, then a nil writer's panic or
\* Fatal's os.Exit ends the process.
Emit(lvl) ==
    /\ pc = "ready"
    /\ last' = [lvl |-> lvl, writes |-> Writes(log.cores, lvl)]
    /\ IF FirstPanic(log.cores, lvl) # 0
       THEN pc' = "panicked" /\ cause' = "nil writer"
       ELSE IF lvl = FatalLevel
       THEN pc' = "exited" /\ UNCHANGED cause
       ELSE UNCHANGED <<pc, cause>>
    /\ UNCHANGED <<c, loadErr, printed, log>>

Debug == Emit(DebugLevel)

Info == Emit(InfoLevel)

Warn == Emit(WarnLevel)

Error == Emit(ErrorLevel)

Fatal == Emit(FatalLevel)

Next ==
    \/ New
    \/ NewFromToml
    \/ NewFromYaml
    \/ NewFromJson
    \/ SetDivision
    \/ CloseConsoleDisplay
    \/ SetCaller
    \/ SetErrorFile
    \/ SetInfoFile
    \/ SetEncoding
    \/ InitLogger
    \/ Debug
    \/ Info
    \/ Warn
    \/ Error
    \/ Fatal

Spec == Init /\ [][Next]_vars

\* The rotating writers alone: the configuration is set by field and handed
\* to InitLogger.
SizeInit ==
    /\ pc = "config"
    /\ c \in SizeOptions
    /\ loadErr = "none"
    /\ cause = ""
    /\ printed = FALSE
    /\ log = NoLog
    /\ last = NoEntry

SizeNext ==
    \/ InitLogger
    \/ Debug
    \/ Info
    \/ Warn
    \/ Error
    \/ Fatal

SizeSpec == SizeInit /\ [][SizeNext]_vars

---------------------------------------------------------------------------
(* Vocabulary of the properties.                                           *)

\* InitLogger returned a Log.
Returned == log # NoLog

\* InitLogger was called.
Called == pc \notin {"start", "config"} /\ cause # "toml"

\* A logging call was made.
Logged == last # NoEntry

LocalCoreIdx == {i \in 1 .. Len(log.cores) : log.cores[i].enab # "sentry"}

SentryCoreIdx == {i \in 1 .. Len(log.cores) : log.cores[i].enab = "sentry"}

StdoutCount(ws) == Cardinality({j \in 1 .. Len(ws) : ws[j] = Stdout})

IsFileWriter(w) == w.kind \in {"lumberjack", "rotatelogs"}

HasFileWriter(ws) == \E j \in 1 .. Len(ws) : IsFileWriter(ws[j])

\* A rotating writer is asked for under a name rotatelogs.New rejects.
BadWriterRequested(opts) ==
    /\ isOutput(opts)
    /\ \/ RotatelogsNewFails(opts.InfoFilename)
       \/ opts.LevelSeparate /\ RotatelogsNewFails(opts.ErrorFilename)

NoFileAndNoConsole(opts) ==
    opts.CloseDisplay # 0 /\ opts.InfoFilename = "" /\ opts.ErrorFilename = ""

---------------------------------------------------------------------------
(* C1: an entry whose severity is below the configured minimum level is    *)
(* written to no console or file writer, with level_separate on or off.    *)
(* The warn core's filter ignores c.Level, so this fails.                  *)
C1_BelowMinLevelDropped ==
    (Returned /\ Logged /\ last.lvl < c.Level)
        => \A i \in LocalCoreIdx : last.writes[i] = <<>>

(* C2: with level_separate on, at most one of the info core and the warn   *)
(* core admits an entry and writes; an entry at warn severity is written   *)
(* by the warn core only, never by the info core; and stdout, which sits   *)
(* in both writer-sets, receives an admitted entry exactly once.           *)
C2_SeparateRouting ==
    (Returned /\ Logged /\ c.LevelSeparate) =>
        LET lvl == last.lvl
            info == last.writes[1]
            warn == last.writes[2]
            admitted == lvl >= WarnLevel \/ lvl >= c.Level
        IN  /\ log.cores[1].enab = "info" /\ log.cores[2].enab = "warn"
            /\ Cardinality({i \in {1, 2} : Enabled(log.cores[i], lvl)}) <= 1
            /\ ~(info # <<>> /\ warn # <<>>)
            /\ lvl = WarnLevel =>
                  /\ info = <<>>
                  /\ warn = BeforeNil(log.cores[2].ws)
            /\ StdoutCount(info) + StdoutCount(warn) =
                  (IF admitted /\ c.CloseDisplay = 0 THEN 1 ELSE 0)

C2_Witness ==
    /\ Returned /\ Logged /\ c.LevelSeparate
    /\ last.lvl = WarnLevel
    /\ c.CloseDisplay = 0
    /\ c.InfoFilename = "app.log"
    /\ last.writes[1] = <<>>
    /\ Len(last.writes[2]) = 2
    /\ last.writes[2][1] = Stdout
    /\ last.writes[2][2].kind = "lumberjack"

(* C3: with level_separate on and error_filename set, with or without      *)
(* info_filename, the warn writer-set holds a rotating writer for          *)
(* error_filename built by the configured division, and an entry at warn   *)
(* severity or above is written to it.  warnHook is only assigned inside   *)
(* if c.isOutput(), so this fails.                                         *)
C3_ErrorFileWriterBuilt ==
    (Returned /\ c.LevelSeparate /\ c.ErrorFilename # "") =>
        /\ \E j \in 1 .. Len(log.cores[2].ws) :
              LET w == log.cores[2].ws[j]
              IN  /\ IsFileWriter(w)
                  /\ w.Filename = c.ErrorFilename
                  /\ c.Division = TimeDivision => w.kind = "rotatelogs"
                  /\ c.Division = SizeDivision => w.kind = "lumberjack"
        /\ (Logged /\ last.lvl >= WarnLevel) => HasFileWriter(last.writes[2])

(* C4: with a DSN set, an entry is written to the sentry core exactly when *)
(* its severity is error or above, whatever the local filters admit; with  *)
(* no DSN there is no sentry core.  A nil writer in a local core panics    *)
(* before the sentry core is reached, so this fails.                       *)
C4_ErrorsForwarded ==
    Returned =>
        /\ c.DSN = "" => SentryCoreIdx = {}
        /\ c.DSN # "" =>
              /\ SentryCoreIdx # {}
              /\ Logged =>
                    \A i \in SentryCoreIdx :
                        (last.writes[i] # <<>>) <=> (last.lvl >= ErrorLevel)

\* What stands in the way of C4: a local core admits the entry and holds a nil
\* writer.  Without one the sentry core receives the entries C4 names.
C4_ForwardedUnlessNilWriter ==
    (Returned /\ Logged /\ c.DSN # "" /\ cause # "nil writer") =>
        \A i \in SentryCoreIdx :
            (last.writes[i] # <<>>) <=> (last.lvl >= ErrorLevel)

(* C5: when sentry.NewClient fails, the Log InitLogger returns has no      *)
(* sentry core, and the error was reported.  The core is built around the  *)
(* nil client and attached all the same, so this fails.                    *)
C5_NoRemoteCoreOnClientFailure ==
    (Returned /\ SentryNewClientFails(c.DSN)) =>
        /\ printed
        /\ SentryCoreIdx = {}

(* C6, as claimed: under division = time and under division = size, when   *)
(* a rotating writer is asked for under a name that cannot be constructed, *)
(* InitLogger never returns a Log.                                         *)
C6_AnyWriterFailureAborts ==
    (Called /\ c # NilOptions /\ c.Division \in {TimeDivision, SizeDivision}
        /\ BadWriterRequested(c))
        => ~Returned

(* C6, amended: under division = time, when rotatelogs.New fails for       *)
(* info_filename, or for error_filename while info_filename is set and     *)
(* level_separate is on, InitLogger panics and returns no Log; under any   *)
(* other division no writer construction fails, and under division = size  *)
(* InitLogger returns a Log whatever the paths are (given an encoder).     *)
C6_TimeWriterFailureAborts ==
    (Called /\ c # NilOptions) =>
        /\ (c.Division = TimeDivision /\ BadWriterRequested(c))
              => (~Returned /\ pc = "panicked" /\ cause = "rotatelogs")
        /\ c.Division # TimeDivision => cause # "rotatelogs"
        /\ (c.Division = SizeDivision /\ ~EncoderIsNil(c)) => Returned

C6_Witness ==
    /\ pc = "panicked"
    /\ cause = "rotatelogs"
    /\ c.Division = TimeDivision
    /\ c.LevelSeparate
    /\ c.InfoFilename = "app.log"
    /\ c.ErrorFilename = "bad%"

(* C7: a failing NewFromToml panics, while a failing NewFromYaml or        *)
(* NewFromJson returns a LogOptions value the caller can go on with: the   *)
(* setters and InitLogger do not fail on it.  The loaders return a nil     *)
(* pointer when the file is unreadable or does not parse, so this fails.   *)
C7_FailedLoadUsable ==
    /\ cause = "toml" => pc = "panicked"
    /\ loadErr \in {"yaml", "json"} =>
          /\ c # NilOptions
          /\ cause # "nil options"

C9_SizeWriterParameters ==
    (Returned /\ c.Division = SizeDivision) =>
        \A i \in 1 .. Len(log.cores) :
            \A j \in 1 .. Len(log.cores[i].ws) :
                LET w == log.cores[i].ws[j]
                IN  w.kind = "lumberjack" =>
                        /\ w.MaxSize = c.MaxSize
                        /\ w.MaxBackups = c.MaxBackups
                        /\ w.MaxAge = c.MaxAge
                        /\ w.Compress = c.Compress

(* C10: once InitLogger has returned, no writer-set of a core holds a nil  *)
(* writer, for any division string and any combination of file names and   *)
(* level_separate.  infoHook and warnHook stay nil when no case of the     *)
(* switch matches or the switch is skipped, so this fails.                 *)
C10_NoNilWriter ==
    Returned =>
        \A i \in 1 .. Len(log.cores) :
            \A j \in 1 .. Len(log.cores[i].ws) :
                log.cores[i].ws[j] # NilWriter
===========================================================================
